---- MODULE Spec2Model ----
(***************************************************************************)
(* The Auth facade of lib/modules/auth/index.js: the cached auth state,    *)
(* the cached User handle, the 'onAuthStateChanged' subscriber list and    *)
(* the operations forwarded to the native FirebaseAuth bridge.             *)
(***************************************************************************)
EXTENDS Integers, Sequences, FiniteSets, Bags, TLC

\* ---------------------------------------------------------------- bounds
\* User objects that may be constructed in one behaviour.
MaxHandles == 2
\* Native calls that may be awaiting their callback at the same time.
MaxInFlight == 1

\* ---------------------------------------------------------------- values
Null == [null |-> TRUE]
Undefined == [undefined |-> TRUE]
\* "no bridge event has been processed yet" (trace value only).
NoEvent == [none |-> TRUE]

U1 == [id |-> "u1", email |-> "a@example.com"]
U2 == [id |-> "u1", email |-> "b@example.com"]
UserRecords == {U1, U2}

\* type AuthResultType = { authenticated: boolean, user: Object|null }
AuthResultType == [authenticated : BOOLEAN, user : UserRecords \cup {Undefined}]
\* What the bridge may hand to the handler: an AuthResultType or nothing.
Payloads == AuthResultType \cup {Null}

\* The application's listener functions.
Listeners == {"f", "g"}

Emails == {"a@example.com"}
Passwords == {"bad"}
Tokens == {"tok"}
Profiles == {[displayName |-> "Ann"]}
\* type CredentialType = { provider: string, token: string, secret: string }
CredentialType == [provider : {"facebook"}, token : {"t1"}, secret : {"s1"}]

\* What the native side may answer to one call.
Outcomes ==
    { [status |-> "resolve", value |-> "result"],
      [status |-> "reject", value |-> "auth/wrong-password"] }

VARIABLES
    _user,          \* this._user: Null or the cached User handle
    _authResult,    \* this._authResult
    authenticated,  \* this.authenticated
    subscribers,    \* the emitter's listeners of 'onAuthStateChanged', in order
    unsubscribers,  \* listeners for which an unsubscribe function was returned
    bridgeCalls,    \* bag of native calls awaiting their callback (promise pending)
    nextHandle,     \* identity of the next User object constructed
    lastOp,         \* trace: the operation that produced this state
    invoked,        \* trace: listener invocations made by that operation
    lastEvent,      \* trace: payload of the most recent bridge event
    regs,           \* trace: registrations of a listener since its last unsubscribe
    revoked         \* trace: >0 when unsubscribed and not registered again

cache == <<_user, _authResult, authenticated>>
facade == <<_user, _authResult, authenticated, subscribers, unsubscribers,
            nextHandle, lastEvent, regs, revoked>>
vars == <<_user, _authResult, authenticated, subscribers, unsubscribers,
          bridgeCalls, nextHandle, lastOp, invoked, lastEvent, regs, revoked>>

Range(s) == {s[i] : i \in DOMAIN s}
Min(a, b) == IF a < b THEN a ELSE b

\* The shape of a trace record; every operation fills in its own fields.
Quiet ==
    [kind |-> "init", listener |-> "", auth |-> NoEvent, threw |-> FALSE,
     first |-> FALSE, hadUser |-> FALSE, op |-> "", args |-> <<>>, bridge |-> Null,
     promise |-> Null, result |-> Null]

\* One listener invocation: who was called, with what, and what the facade's
\* currentUser / authenticated read at that moment.
Invocation(listener, payload, seenUser, seenAuth) ==
    [listener |-> listener, payload |-> payload,
     currentUser |-> seenUser, authenticated |-> seenAuth]

\* x || null
OrNull(x) == IF x \in {Undefined, Null} THEN Null ELSE x

\* ------------------------------------------------- the emitter (Base)
on(subs, listener) ==
    IF listener \in Range(subs) THEN subs ELSE Append(subs, listener)

removeListener(subs, listener) ==
    SelectSeq(subs, LAMBDA l : l # listener)

emit(subs, payload, seenUser, seenAuth) ==
    [i \in 1..Len(subs) |-> Invocation(subs[i], payload, seenUser, seenAuth)]

\* ------------------------------------------------- the User handle
\* new User(this, auth)
User(handle, auth) == [handle |-> handle, values |-> auth]

\* user._updateValues(auth): the same object, holding the new values
_updateValues(user, auth) == [user EXCEPT !.values = auth]

\* ------------------------------------------------- constructor
Init ==
    /\ _user = Null
    /\ _authResult = Null
    /\ authenticated = FALSE
    /\ subscribers = <<>>
    /\ unsubscribers = {}
    /\ bridgeCalls = EmptyBag
    /\ nextHandle = 1
    /\ lastOp = Quiet
    /\ invoked = <<>>
    /\ lastEvent = NoEvent
    /\ regs = [l \in Listeners |-> 0]
    /\ revoked = [l \in Listeners |-> 0]

\* ------------------------------------------------- _onAuthStateChanged
\* auth ? auth.authenticated || false : false
AuthenticatedOf(auth) ==
    IF auth # Null THEN (auth.authenticated \/ FALSE) ELSE FALSE

\* Faulty variant of NextUser: the handle survives an event without a user.

NextUser_NeverCleared(auth, user, handle) ==
    IF auth # Null /\ auth.user # Undefined /\ user = Null
        THEN User(handle, auth)
    ELSE IF user # Null /\ auth # Null /\ auth.user # Undefined
        THEN _updateValues(user, auth)
    ELSE user

\* Faulty variant of NextUser: every event with a user constructs a new User.

NextUser_AlwaysNew(auth, user, handle) ==
    IF auth # Null /\ auth.user # Undefined THEN User(handle, auth)
    ELSE Null

\* The if / else if / else if chain that maintains this._user.
NextUser(auth, user, handle) ==
    IF auth # Null /\ auth.user # Undefined /\ user = Null
        THEN User(handle, auth)
    ELSE IF (auth = Null \/ auth.user = Undefined) /\ user # Null
        THEN Null
    ELSE IF user # Null
        THEN _updateValues(user, auth)
    ELSE user

\* The bookkeeping shared by the handler and its variants: everything the
\* handler leaves alone, and the trace of the event.
EventFrame(auth, threw) ==
    /\ lastOp' = [Quiet EXCEPT !.kind = "event", !.auth = auth,
                               !.threw = threw,
                               !.first = (lastEvent = NoEvent),
                               !.hadUser = (_user # Null)]
    /\ lastEvent' = auth
    /\ nextHandle' = IF _user' # Null /\ (_user = Null \/ _user'.handle # _user.handle)
                        THEN nextHandle + 1 ELSE nextHandle
    /\ nextHandle' <= MaxHandles + 1
    /\ UNCHANGED <<subscribers, unsubscribers, bridgeCalls, regs, revoked>>

\* Faulty variant of the handler: listeners run before the cache is written.

_onAuthStateChanged_EmitFirst(auth) ==
    /\ _authResult' = auth
    /\ authenticated' = AuthenticatedOf(auth)
    /\ _user' = NextUser(auth, _user, nextHandle)
    /\ invoked' = IF auth = Null THEN <<>>
                  ELSE emit(subscribers, OrNull(auth.user), _user, authenticated)
    /\ EventFrame(auth, auth = Null)

\* The handler of the bridge's 'listenForAuth' event. With a null payload the
\* last statement reads `.user` of null and throws before anything is emitted.
_onAuthStateChanged(auth) ==
    /\ _authResult' = auth
    /\ authenticated' = AuthenticatedOf(auth)
    /\ _user' = NextUser(auth, _user, nextHandle)
    /\ invoked' = IF _authResult' = Null THEN <<>>
                  ELSE emit(subscribers, OrNull(_authResult'.user),
                            _user', authenticated')
    /\ EventFrame(auth, _authResult' = Null)

\* ------------------------------------------------- onAuthStateChanged
\* The trace of one registration.
RegisterFrame(listener) ==
    /\ lastOp' = [Quiet EXCEPT !.kind = "register", !.listener = listener]
    /\ regs' = [regs EXCEPT ![listener] = Min(@ + 1, 2)]
    /\ revoked' = [revoked EXCEPT ![listener] = 0]
    /\ UNCHANGED <<bridgeCalls, nextHandle, lastEvent>>

\* Faulty variant of onAuthStateChanged: the cached state is not replayed.

onAuthStateChanged_NoReplay(listener) ==
    /\ subscribers' = on(subscribers, listener)
    /\ invoked' = <<>>
    /\ unsubscribers' = unsubscribers \cup {listener}
    /\ UNCHANGED cache
    /\ RegisterFrame(listener)

onAuthStateChanged(listener) ==
    /\ subscribers' = on(subscribers, listener)
    /\ invoked' = IF _authResult # Null
                     THEN <<Invocation(listener, OrNull(_authResult.user),
                                       _user, authenticated)>>
                     ELSE <<>>
    /\ unsubscribers' = unsubscribers \cup {listener}
    /\ UNCHANGED cache
    /\ RegisterFrame(listener)

\* ------------------------------------------------- _offAuthStateChanged
UnsubscribeFrame(listener) ==
    /\ lastOp' = [Quiet EXCEPT !.kind = "unsubscribe", !.listener = listener]
    /\ invoked' = <<>>
    /\ revoked' = [revoked EXCEPT ![listener] = IF regs[listener] > 0
                                                   THEN regs[listener] ELSE @]
    /\ regs' = [regs EXCEPT ![listener] = 0]
    /\ UNCHANGED <<unsubscribers, bridgeCalls, nextHandle, lastEvent>>

\* Faulty variant of _offAuthStateChanged: the listener stays registered.

_offAuthStateChanged_KeepsListener(listener) ==
    /\ listener \in unsubscribers
    /\ UNCHANGED subscribers
    /\ UNCHANGED cache
    /\ UnsubscribeFrame(listener)

\* The function onAuthStateChanged returned, called by the application.
_offAuthStateChanged(listener) ==
    /\ listener \in unsubscribers
    /\ subscribers' = removeListener(subscribers, listener)
    /\ UNCHANGED cache
    /\ UnsubscribeFrame(listener)

\* ------------------------------------------------- get currentUser
currentUser ==
    /\ lastOp' = [Quiet EXCEPT !.kind = "read", !.result = _user]
    /\ invoked' = <<>>
    /\ UNCHANGED <<facade, bridgeCalls>>

\* ------------------------------------------------- promisify (utils)
\* promisify(name, FirebaseAuth) called without an error prefix.
NoPrefix == ""

\* promisify(method, FirebaseAuth, errorPrefix)(...args): one call of the
\* native method; the promise it returns is pending until the callback.
\* `op` and `given` record which facade method was called and with what.
promisify(method, errorPrefix, args, op, given) ==
    /\ BagCardinality(bridgeCalls) < MaxInFlight
    /\ bridgeCalls' = bridgeCalls (+) SetToBag({[op |-> op, method |-> method,
                                                 args |-> args,
                                                 errorPrefix |-> errorPrefix]})
    /\ lastOp' = [Quiet EXCEPT !.kind = "forward", !.op = op, !.args = given]
    /\ invoked' = <<>>

\* What the promise settles with when the native callback reports `outcome`:
\* the bridge's result or error, as reported (utils is not part of the source
\* at hand; this follows the documented contract of the facade).
Settlement(errorPrefix, outcome) == outcome

\* The native callback of one pending call arrives.
BridgeSettles(call, outcome) ==
    /\ BagIn(call, bridgeCalls)
    /\ bridgeCalls' = bridgeCalls (-) SetToBag({call})
    /\ lastOp' = [Quiet EXCEPT !.kind = "settle", !.bridge = outcome,
                               !.promise = Settlement(call.errorPrefix, outcome)]
    /\ invoked' = <<>>
    /\ UNCHANGED facade

\* ------------------------------------------------- forwarding operations
createUserWithEmailAndPassword(email, password) ==
    /\ promisify("createUserWithEmail", "auth/", <<email, password>>,
                 "createUserWithEmailAndPassword", <<email, password>>)
    /\ UNCHANGED facade

signInWithEmailAndPassword(email, password) ==
    /\ promisify("signInWithEmail", "auth/", <<email, password>>,
                 "signInWithEmailAndPassword", <<email, password>>)
    /\ UNCHANGED facade

updateEmail(email) ==
    /\ promisify("updateUserEmail", "auth/", <<email>>,
                 "updateEmail", <<email>>)
    /\ UNCHANGED facade

sendEmailVerification ==
    /\ promisify("sendEmailVerification", "auth/", <<>>,
                 "sendEmailVerification", <<>>)
    /\ UNCHANGED facade

updatePassword(password) ==
    /\ promisify("updateUserPassword", "auth/", <<password>>,
                 "updatePassword", <<password>>)
    /\ UNCHANGED facade

updateProfile(updates) ==
    /\ promisify("updateUserProfile", "auth/", <<updates>>,
                 "updateProfile", <<updates>>)
    /\ UNCHANGED facade

\* Faulty variant of link: the credential's secret is not passed on.

link_DropsSecret(credential) ==
    /\ promisify("link", "auth/", <<credential.provider, credential.token>>,
                 "link", <<credential>>)
    /\ UNCHANGED facade

link(credential) ==
    /\ promisify("link", "auth/", <<credential.provider, credential.token, credential.secret>>,
                 "link", <<credential>>)
    /\ UNCHANGED facade

signInWithCustomToken(customToken) ==
    /\ promisify("signInWithCustomToken", NoPrefix, <<customToken>>,
                 "signInWithCustomToken", <<customToken>>)
    /\ UNCHANGED facade

signInWithCredential(credential) ==
    /\ promisify("signInWithProvider", "auth/", <<credential.provider, credential.token, credential.secret>>,
                 "signInWithCredential", <<credential>>)
    /\ UNCHANGED facade

reauthenticateUser(credential) ==
    /\ promisify("reauthenticateWithCredentialForProvider", "auth/", <<credential.provider, credential.token, credential.secret>>,
                 "reauthenticateUser", <<credential>>)
    /\ UNCHANGED facade

signInAnonymously ==
    /\ promisify("signInAnonymously", "auth/", <<>>,
                 "signInAnonymously", <<>>)
    /\ UNCHANGED facade

sendPasswordResetEmail(email) ==
    /\ promisify("sendPasswordResetWithEmail", "auth/", <<email>>,
                 "sendPasswordResetEmail", <<email>>)
    /\ UNCHANGED facade

deleteUser ==
    /\ promisify("deleteUser", "auth/", <<>>,
                 "deleteUser", <<>>)
    /\ UNCHANGED facade

reloadUser ==
    /\ promisify("reloadUser", "auth/", <<>>,
                 "reloadUser", <<>>)
    /\ UNCHANGED facade

getToken ==
    /\ promisify("getToken", "auth/", <<>>,
                 "getToken", <<>>)
    /\ UNCHANGED facade

\* Faulty variant of signOut: the facade clears its own cached user.

signOut_ClearsUser ==
    /\ promisify("signOut", "auth/", <<>>,
                 "signOut", <<>>)
    /\ _user' = Null
    /\ UNCHANGED <<_authResult, authenticated, subscribers, unsubscribers,
                   nextHandle, lastEvent, regs, revoked>>

signOut ==
    /\ promisify("signOut", "auth/", <<>>,
                 "signOut", <<>>)
    /\ UNCHANGED facade

getCurrentUser ==
    /\ promisify("getCurrentUser", "auth/", <<>>,
                 "getCurrentUser", <<>>)
    /\ UNCHANGED facade

\* ------------------------------------------------- the system
Next ==
    \/ \E auth \in Payloads : _onAuthStateChanged(auth)
    \/ \E listener \in Listeners : onAuthStateChanged(listener)
    \/ \E listener \in Listeners : _offAuthStateChanged(listener)
    \/ currentUser
    \/ \E call \in BagToSet(bridgeCalls), outcome \in Outcomes :
          BridgeSettles(call, outcome)
    \/ \E email \in Emails, password \in Passwords :
          \/ createUserWithEmailAndPassword(email, password)
          \/ signInWithEmailAndPassword(email, password)
    \/ \E email \in Emails :
          \/ updateEmail(email)
          \/ sendPasswordResetEmail(email)
    \/ \E password \in Passwords : updatePassword(password)
    \/ \E updates \in Profiles : updateProfile(updates)
    \/ \E customToken \in Tokens : signInWithCustomToken(customToken)
    \/ \E credential \in CredentialType :
          \/ link(credential)
          \/ signInWithCredential(credential)
          \/ reauthenticateUser(credential)
    \/ sendEmailVerification
    \/ signInAnonymously
    \/ deleteUser
    \/ reloadUser
    \/ getToken
    \/ signOut
    \/ getCurrentUser

Spec == Init /\ [][Next]_vars

\* ================================================= properties
\* An event payload that carries a user.
HasUser(e) == e \notin {NoEvent, Null} /\ e.user # Undefined

\* The payload listeners are to receive for event e: its user, or null.
UserOrNull(e) == IF HasUser(e) THEN e.user ELSE Null

\* ------------------------------------------------------------------ C1
\* C1 (as stated): after the last bridge event, currentUser is non-null iff
\* that event had authenticated = true and a user payload.
C1_UserIffAuthenticatedAndUser ==
    lastEvent # NoEvent =>
        (_user # Null <=> (HasUser(lastEvent) /\ lastEvent.authenticated))

\* C1 (amended): after the last bridge event, currentUser is non-null iff
\* that event carried a user payload, whatever its authenticated flag; before
\* any event it is null.
C1_UserIffLastEventHasUser ==
    /\ lastEvent = NoEvent => _user = Null
    /\ lastEvent # NoEvent => (_user # Null <=> HasUser(lastEvent))

\* An event with authenticated = false and a user has been processed and a
\* handle is cached.
C1_Witness ==
    /\ lastOp.kind = "event"
    /\ HasUser(lastEvent)
    /\ ~lastEvent.authenticated
    /\ _user # Null

\* ------------------------------------------------------------------ C2
\* C2: a listener registered while a state is cached is invoked exactly once
\* during the registration, with the user of the most recent event (null when
\* that event carried none); nothing older is replayed.
C2_ReplayLastOnce ==
    (lastOp.kind = "register" /\ lastEvent \notin {NoEvent, Null}) =>
        /\ Len(invoked) = 1
        /\ invoked[1].listener = lastOp.listener
        /\ invoked[1].payload = UserOrNull(lastEvent)

\* A registration after an event with a user was followed by one without:
\* the one replay carries null.
C2_Witness ==
    /\ lastOp.kind = "register"
    /\ lastEvent \notin {NoEvent, Null}
    /\ ~HasUser(lastEvent)
    /\ nextHandle > 1
    /\ Len(invoked) = 1

C4_AllNotifiedInOrder ==
    lastOp.kind = "event" =>
        /\ Len(invoked) = Len(subscribers)
        /\ \A i \in DOMAIN invoked :
              /\ invoked[i].listener = subscribers[i]
              /\ invoked[i].payload = UserOrNull(lastOp.auth)

\* ------------------------------------------------------------------ C5
\* C5: a User handle is created only by an event with a user while none is
\* cached, discarded only by an event without a user, and kept (same object,
\* values updated in place) across consecutive events that both carry a user.
C5_HandleKeptInPlace ==
    [][ /\ (_user' # Null /\ (_user = Null \/ _user'.handle # _user.handle)) =>
              /\ lastOp'.kind = "event"
              /\ HasUser(lastOp'.auth)
              /\ _user = Null
              /\ _user'.handle = nextHandle
        /\ (_user # Null /\ _user' = Null) =>
              /\ lastOp'.kind = "event"
              /\ ~HasUser(lastOp'.auth)
        /\ (lastOp'.kind = "event" /\ HasUser(lastEvent) /\ HasUser(lastOp'.auth)) =>
              /\ _user # Null
              /\ _user' # Null
              /\ _user'.handle = _user.handle
              /\ _user'.values = lastOp'.auth
      ]_vars

\* The handle made for a@example.com is still the cached one after an event
\* that changed the email.
C5_Witness ==
    /\ lastOp.kind = "event"
    /\ lastOp.hadUser
    /\ _user # Null
    /\ _user.handle = 1
    /\ _user.values.user = U2

\* ------------------------------------------------------------------ C6
FacadeOps ==
    { "createUserWithEmailAndPassword", "signInWithEmailAndPassword",
      "updateEmail", "sendEmailVerification", "updatePassword",
      "updateProfile", "link", "signInWithCustomToken",
      "signInWithCredential", "reauthenticateUser", "signInAnonymously",
      "sendPasswordResetEmail", "deleteUser", "reloadUser", "getToken",
      "signOut", "getCurrentUser" }

CredentialOps == {"link", "signInWithCredential", "reauthenticateUser"}

\* The native arguments the caller's arguments amount to.
ExpectedArgs(op, given) ==
    IF op \in CredentialOps
        THEN <<given[1].provider, given[1].token, given[1].secret>>
        ELSE given

C7_OnlyHandlerWritesCache ==
    [][lastOp'.kind # "event" => UNCHANGED cache]_vars

\* signOut has been called while a user is cached and authenticated.
C7_Witness ==
    /\ lastOp.kind = "forward"
    /\ lastOp.op = "signOut"
    /\ _user # Null
    /\ authenticated

\* ------------------------------------------------------------------ C8
\* C8: an event with an absent payload is processed without an error:
\* authenticated becomes false, the handle null, and every registered
\* listener is notified with null.
C8_NullPayloadHandled ==
    (lastOp.kind = "event" /\ lastOp.auth = Null) =>
        /\ ~lastOp.threw
        /\ ~authenticated
        /\ _user = Null
        /\ Len(invoked) = Len(subscribers)
        /\ \A i \in DOMAIN invoked : invoked[i].payload = Null

\* ------------------------------------------------------------------ C9
\* C9: at every listener invocation (event or replay) currentUser is non-null
\* iff the payload is non-null, and authenticated already equals the
\* authenticated field of the event being delivered.
C9_CacheUpdatedBeforeNotify ==
    \A i \in DOMAIN invoked :
        /\ lastEvent \notin {NoEvent, Null}
        /\ invoked[i].currentUser # Null <=> invoked[i].payload # Null
        /\ invoked[i].authenticated = lastEvent.authenticated

\* A listener was notified of the event that created the handle and already
\* saw the handle and authenticated = true.
C9_Witness ==
    /\ lastOp.kind = "event"
    /\ ~lastOp.hadUser
    /\ invoked # <<>>
    /\ invoked[1].currentUser # Null
    /\ invoked[1].authenticated

\* ------------------------------------------------------------------ C10
\* C10: a listener registered before any bridge event is not invoked by the
\* registration (currentUser null, authenticated false), and is invoked when
\* the next bridge event is processed.
C10_FirstCallAtNextEvent ==
    /\ (lastOp.kind = "register" /\ lastEvent = NoEvent) =>
          /\ invoked = <<>>
          /\ _user = Null
          /\ ~authenticated
    /\ (lastOp.kind = "event" /\ lastOp.first) =>
          \A l \in Range(subscribers) :
              \E i \in DOMAIN invoked : invoked[i].listener = l

====
